---- MODULE Spec2Model ----
(***************************************************************************)
(* The transcription gateway of sunflower-ultravox-vllm/app.py: one HTTP   *)
(* request, from its arrival to the end of its response.  Requests share   *)
(* no mutable state, so one request with nondeterministic inputs and a     *)
(* nondeterministic backend covers the program.                            *)
(*                                                                         *)
(* The routes are served by FastAPI/Starlette under uvicorn (app.py:16,    *)
(* 217-218).  What the handlers hand to those libraries is modelled by     *)
(* what the libraries do with it:                                          *)
(*  - a required File(...) parameter that is absent is answered 422 and    *)
(*    the handler is never entered;                                        *)
(*  - StreamingResponse writes the status line and headers first, then     *)
(*    advances the synchronous body generator one next() at a time in a    *)
(*    worker thread, writes each chunk, and writes the terminating chunk   *)
(*    when the generator is exhausted; beside it a task waits for the      *)
(*    caller's disconnect and cancels the streaming task, which takes      *)
(*    effect where that task awaits, never inside a running next();        *)
(*  - an exception leaving the application after the response has started  *)
(*    makes the server close the connection without a terminating chunk;   *)
(*    before it has started the server answers 500;                        *)
(*  - HTTPException(status_code=500, detail=d) is answered 500 with d;     *)
(*  - the OpenAI client built at app.py:28-31 without max_retries re-sends *)
(*    a request that failed with a connection error or a retryable status. *)
(***************************************************************************)
EXTENDS Integers, Sequences, FiniteSets, TLC

\* ------------------------------------------------------------------ bounds

\* Longest backend stream (events) the relay may receive.
MaxEvents == 3

\* Longest model catalog (entries of "data").
MaxModels == 2

\* The OpenAI SDK's default max_retries; the client is constructed without
\* one (app.py:28-31).
MaxRetries == 2

\* ------------------------------------------------------------------ inputs

Routes == {"transcribe", "models", "models_list", "health", "root"}

\* A streamed chunk's choices[i].delta: content is None (has = FALSE) or a
\* string, modelled as a sequence of characters.
Delta(h, t) == [has |-> h, text |-> t]

\* The events (chunks) a backend stream may carry: a sequence of choices.
\* A chat-completion chunk of a request without stream_options carries at
\* least one choice.
Events ==
    { <<Delta(FALSE, <<>>)>>,
      <<Delta(TRUE, <<>>)>>,
      <<Delta(TRUE, <<"a">>)>>,
      <<Delta(TRUE, <<"b", "c">>)>>,
      <<Delta(TRUE, <<"a">>), Delta(TRUE, <<"x">>)>>,
      <<Delta(FALSE, <<>>), Delta(TRUE, <<"x">>)>> }

\* Outcomes of one HTTP attempt of chat.completions.create.
CreateOutcomes == {"ok", "connection_error", "status_500", "status_400"}

\* The SDK re-sends after a connection error, a timeout and the statuses
\* 408, 409, 429 and 5xx.
Retryable(outcome) == outcome \in {"connection_error", "status_500"}

VARIABLES
    route,        \* the operation requested
    hasAudio,     \* the multipart body carries the audio_file field
    pc,           \* position of the request in the server
    genPc,        \* position of the body generator generate()
    calls,        \* outbound HTTP requests sent to the backend so far
    createCalls,  \* invocations of chat.completions.create so far
    lastCreate,   \* outcome of the latest create attempt
    getResult,    \* outcome of the awaited backend GET
    received,     \* events the relay has taken from the backend stream
    streamState,  \* the backend stream: none, open, ended, failed, closed
    chunk,        \* the value the generator has yielded, not yet written
    body,         \* response body bytes written to the caller so far
    started,      \* status line and headers have been written
    respStatus,   \* HTTP status of the response, 0 while there is none
    respShape,    \* which of the response shapes was produced
    respEnd,      \* none, open, complete (terminated), aborted (cut off)
    respDetail,   \* error text carried by the response
    respModels,   \* models array / data ids of the response
    respCount,    \* count field of /models/list
    vllmStatus,   \* vllm_status field of /health
    disconnected, \* the caller's connection is gone
    cancelled     \* the streaming task has been cancelled

vars == <<route, hasAudio, pc, genPc, calls, createCalls, lastCreate,
          getResult, received, streamState, chunk, body, started,
          respStatus, respShape, respEnd, respDetail, respModels,
          respCount, vllmStatus, disconnected, cancelled>>

reqVars == <<route, hasAudio>>
respVars == <<respStatus, respShape, respEnd, respDetail, respModels,
              respCount, vllmStatus>>
getVars == <<getResult>>
streamVars == <<genPc, createCalls, lastCreate, received, streamState,
                chunk, body, started, disconnected, cancelled>>

\* ------------------------------------------------------- backend GET data

\* One entry of the catalog's "data" array: it has an "id" or not, and it
\* has the other ModelInfo fields (object, created, owned_by) or not.
Entry(h, i, f) == [hasId |-> h, id |-> i, full |-> f]

Entries ==
    { Entry(TRUE, "m1", TRUE), Entry(TRUE, "m2", TRUE),
      Entry(TRUE, "m1", FALSE), Entry(FALSE, "", TRUE) }

SeqsUpTo(S, n) == UNION { [1..k -> S] : k \in 0..n }

\* A response body: not JSON at all, or a JSON object with or without the
\* top-level "object" and "data" members.
Json(j, o, h, d) == [isJson |-> j, objOk |-> o, hasData |-> h, data |-> d]

NoJson == Json(FALSE, FALSE, FALSE, <<>>)

Catalogs ==
    { Json(TRUE, o, TRUE, d) : o \in BOOLEAN, d \in SeqsUpTo(Entries, MaxModels) }
      \cup { Json(TRUE, TRUE, FALSE, <<>>), NoJson }

Statuses == {200, 404, 503}

GetResult(k, s, j) == [kind |-> k, status |-> s, json |-> j]

NoResult == GetResult("none", 0, NoJson)

\* httpx failures of client.get: connection failure, timeout, any other
\* transport failure.
TransportErrors == {"ConnectError", "ReadTimeout", "ReadError"}

CatalogOutcomes ==
    { GetResult("response", s, j) : s \in Statuses, j \in Catalogs }
      \cup { GetResult(k, 0, NoJson) : k \in TransportErrors }

HealthOutcomes ==
    { GetResult("response", s, NoJson) : s \in Statuses }
      \cup { GetResult(k, 0, NoJson) : k \in TransportErrors }

\* --------------------------------------------------------------- helpers

\* Mutant: the field declared optional, File(None).
AudioFileOptional == FALSE

\* audio_file: UploadFile = File(...): the field is required.
AudioFileRequired == TRUE

\* Mutant: the last choice of the event instead of the first.
LastChoiceDelta(event) == event[Len(event)]

\* event.choices[0].delta
FirstChoiceDelta(event) == event[1]

\* if event.choices[0].delta.content: None and "" are both falsy.
Truthy(delta) == delta.has /\ delta.text # <<>>

\* Mutant: one retry more than the client's limit.
SdkRetriesOnceMore(outcome, sent) == Retryable(outcome) /\ sent <= MaxRetries + 1

\* The client retries a failed attempt while retries remain; sent counts the
\* attempts made so far, the failed one included.
SdkRetries(outcome, sent) == Retryable(outcome) /\ sent <= MaxRetries

\* Mutant: except httpx.TimeoutException, a narrower clause.
CatchesTimeoutOnly(exc) == exc = "ReadTimeout"

\* except httpx.HTTPError: the transport errors and HTTPStatusError are
\* subclasses; json's decode error and KeyError are not.
IsHTTPError(exc) == exc \in TransportErrors \cup {"HTTPStatusError"}

\* Mutant: the catalog handlers without raise_for_status().
CatalogIgnoresStatus == FALSE

\* response.raise_for_status() is called by the catalog handlers ...
CatalogRaisesForStatus == TRUE

\* Mutant: health_check with raise_for_status().
HealthChecksStatus == TRUE

\* ... and not by health_check.
HealthRaisesForStatus == FALSE

\* httpx: raise_for_status raises unless the status is 2xx.
IsSuccess(status) == status \in 200..299

\* The exception, if any, that the awaited GET and raise_for_status leave
\* the handler with: "" when there is none.
RaisedBy(r, raisesForStatus) ==
    IF r.kind # "response" THEN r.kind
    ELSE IF raisesForStatus /\ ~IsSuccess(r.status) THEN "HTTPStatusError"
    ELSE ""

Detail(prefix, exc, status) == [prefix |-> prefix, exc |-> exc, status |-> status]

NoDetail == Detail("", "", 0)

\* str(e) of the exception raised for r.
ErrorMessage(prefix, r, raisesForStatus) ==
    Detail(prefix, RaisedBy(r, raisesForStatus), r.status)

CatalogPrefix == "Failed to query vLLM models endpoint: "

\* Mutant: the comprehension over data[1:].
ModelNamesButFirst(data) == [i \in 1..(Len(data) - 1) |-> data[i + 1].id]

\* [model["id"] for model in data.get("data", [])]
ModelNames(data) == [i \in 1..Len(data) |-> data[i].id]

\* data.get("data", [])
DataOf(json) == IF json.hasData THEN json.data ELSE <<>>

\* model["id"] raises KeyError for an entry without "id".
AllHaveId(data) == \A i \in 1..Len(data) : data[i].hasId

\* response_model=ModelsResponse: object and data are required, and every
\* entry needs id, object, created and owned_by.
ValidModelsResponse(json) ==
    /\ json.objOk
    /\ json.hasData
    /\ \A i \in 1..Len(json.data) : json.data[i].hasId /\ json.data[i].full

\* ------------------------------------------------------------------- Init

Init ==
    /\ route \in Routes
    /\ hasAudio \in BOOLEAN
    /\ (route # "transcribe" => hasAudio = FALSE)
    /\ pc = "recv"
    /\ genPc = "none"
    /\ calls = 0
    /\ createCalls = 0
    /\ lastCreate = "none"
    /\ getResult = NoResult
    /\ received = <<>>
    /\ streamState = "none"
    /\ chunk = <<>>
    /\ body = <<>>
    /\ started = FALSE
    /\ respStatus = 0
    /\ respShape = "none"
    /\ respEnd = "none"
    /\ respDetail = NoDetail
    /\ respModels = <<>>
    /\ respCount = 0
    /\ vllmStatus = 0
    /\ disconnected = FALSE
    /\ cancelled = FALSE

\* A complete, non-streamed response.
Respond(status, shape, detail, models, count, vstatus) ==
    /\ respStatus' = status
    /\ respShape' = shape
    /\ respEnd' = "complete"
    /\ respDetail' = detail
    /\ respModels' = models
    /\ respCount' = count
    /\ vllmStatus' = vstatus
    /\ pc' = "done"

\* An exception no handler catches, before the response has started.
ServerError == Respond(500, "server_error", NoDetail, <<>>, 0, 0)

\* ------------------------------------------------------------ /transcribe

\* POST /transcribe up to the return of the StreamingResponse: parameter
\* validation, then the handler's read and base64 encoding, which make no
\* backend call; generate() is created and not yet advanced.
TranscribeAudio ==
    /\ pc = "recv"
    /\ route = "transcribe"
    /\ IF AudioFileRequired /\ ~hasAudio
       THEN /\ Respond(422, "validation_error", NoDetail, <<>>, 0, 0)
            /\ UNCHANGED genPc
       ELSE IF ~hasAudio
       THEN /\ ServerError
            /\ UNCHANGED genPc
       ELSE /\ pc' = "respond"
            /\ genPc' = "unstarted"
            /\ UNCHANGED respVars
    /\ UNCHANGED <<reqVars, calls, getVars, createCalls, lastCreate, received,
                   streamState, chunk, body, started, disconnected, cancelled>>

\* StreamingResponse writes status 200 and the headers; the server drops
\* what is written to a connection that is gone.
SendStart ==
    /\ pc = "respond"
    /\ ~cancelled
    /\ pc' = "idle"
    /\ started' = ~disconnected
    /\ respStatus' = IF disconnected THEN respStatus ELSE 200
    /\ respShape' = IF disconnected THEN respShape ELSE "stream"
    /\ respEnd' = IF disconnected THEN respEnd ELSE "open"
    /\ UNCHANGED <<reqVars, calls, getVars, genPc, createCalls, lastCreate,
                   received, streamState, chunk, body, respDetail, respModels,
                   respCount, vllmStatus, disconnected, cancelled>>

\* Mutant: the generator is advanced whether or not the task was cancelled.
CallNextUnchecked ==
    /\ pc = "idle"
    /\ pc' = "waiting"
    /\ IF genPc = "unstarted"
       THEN genPc' = "creating" /\ createCalls' = createCalls + 1
       ELSE genPc' = "reading" /\ UNCHANGED createCalls
    /\ UNCHANGED <<reqVars, calls, getVars, lastCreate, received, streamState,
                   chunk, body, started, respVars, disconnected, cancelled>>

\* Mutant: the generator is advanced to its first chunk before the status
\* line and headers are written.
CallNextBeforeStart ==
    /\ pc \in {"respond", "idle"}
    /\ ~cancelled
    /\ pc' = "waiting"
    /\ IF genPc = "unstarted"
       THEN genPc' = "creating" /\ createCalls' = createCalls + 1
       ELSE genPc' = "reading" /\ UNCHANGED createCalls
    /\ UNCHANGED <<reqVars, calls, getVars, lastCreate, received, streamState,
                   chunk, body, started, respVars, disconnected, cancelled>>

\* The streaming task advances the generator: next() runs in a worker
\* thread.  The first next() enters transcribe_audio_streaming and calls
\* chat.completions.create; later ones resume the for loop.
CallNext ==
    /\ pc = "idle"
    /\ ~cancelled
    /\ pc' = "waiting"
    /\ IF genPc = "unstarted"
       THEN genPc' = "creating" /\ createCalls' = createCalls + 1
       ELSE genPc' = "reading" /\ UNCHANGED createCalls
    /\ UNCHANGED <<reqVars, calls, getVars, lastCreate, received, streamState,
                   chunk, body, started, respVars, disconnected, cancelled>>

\* Mutant: the relay swallows the failure and ends the generator normally.
RaiseSwallowed ==
    /\ genPc' = "done"
    /\ pc' = "exhausted"
    /\ body' = body
    /\ UNCHANGED respVars

\* Mutant: the relay writes an error frame before the connection closes.
RaiseWithErrorFrame ==
    /\ genPc' = "failed"
    /\ pc' = "done"
    /\ respEnd' = "aborted"
    /\ body' = body \o <<"!">>
    /\ UNCHANGED <<respStatus, respShape, respDetail, respModels, respCount,
                   vllmStatus>>

\* An exception leaves the generator: the response has started, so the
\* server closes the connection; nothing more is written.
Raise ==
    /\ genPc' = "failed"
    /\ pc' = "done"
    /\ respEnd' = "aborted"
    /\ body' = body
    /\ UNCHANGED <<respStatus, respShape, respDetail, respModels, respCount,
                   vllmStatus>>

\* One HTTP attempt of chat.completions.create(stream=True, ...).
CreateAttempt ==
    /\ pc = "waiting"
    /\ genPc = "creating"
    /\ \E outcome \in CreateOutcomes :
        /\ calls' = calls + 1
        /\ lastCreate' = outcome
        /\ IF outcome = "ok"
           THEN /\ streamState' = "open"
                /\ genPc' = "reading"
                /\ UNCHANGED <<pc, body, respVars>>
           ELSE IF SdkRetries(outcome, calls + 1)
           THEN UNCHANGED <<streamState, genPc, pc, body, respVars>>
           ELSE /\ Raise
                /\ UNCHANGED streamState
    /\ UNCHANGED <<reqVars, getVars, createCalls, received, chunk,
                   started, disconnected, cancelled>>

\* for event in stream: the next event arrives; a truthy content of the
\* first choice is yielded, anything else continues the loop.
ReadEvent ==
    /\ pc = "waiting"
    /\ genPc = "reading"
    /\ Len(received) < MaxEvents
    /\ \E event \in Events :
        /\ received' = Append(received, event)
        /\ IF Truthy(FirstChoiceDelta(event))
           THEN /\ chunk' = FirstChoiceDelta(event).text
                /\ genPc' = "suspended"
                /\ pc' = "gotChunk"
           ELSE UNCHANGED <<chunk, genPc, pc>>
    /\ UNCHANGED <<reqVars, calls, getVars, createCalls, lastCreate,
                   streamState, body, started, respVars, disconnected,
                   cancelled>>

\* The backend closes the stream: the for loop and the generator end.
StreamEnd ==
    /\ pc = "waiting"
    /\ genPc = "reading"
    /\ streamState' = "ended"
    /\ genPc' = "done"
    /\ pc' = "exhausted"
    /\ UNCHANGED <<reqVars, calls, getVars, createCalls, lastCreate, received,
                   chunk, body, started, respVars, disconnected, cancelled>>

\* The stream fails while the loop waits for the next event.
StreamFail ==
    /\ pc = "waiting"
    /\ genPc = "reading"
    /\ streamState' = "failed"
    /\ Raise
    /\ UNCHANGED <<reqVars, calls, getVars, createCalls, lastCreate, received,
                   chunk, started, disconnected, cancelled>>

\* The yielded chunk is written to the caller.
SendChunk ==
    /\ pc = "gotChunk"
    /\ pc' = "idle"
    /\ body' = IF disconnected THEN body ELSE body \o chunk
    /\ UNCHANGED <<reqVars, calls, getVars, genPc, createCalls, lastCreate,
                   received, streamState, chunk, started, respVars,
                   disconnected, cancelled>>

\* The generator is exhausted: the terminating chunk ends the response.
SendFinal ==
    /\ pc = "exhausted"
    /\ pc' = "done"
    /\ respEnd' = IF disconnected THEN respEnd ELSE "complete"
    /\ UNCHANGED <<reqVars, calls, getVars, genPc, createCalls, lastCreate,
                   received, streamState, chunk, body, started, respStatus,
                   respShape, respDetail, respModels, respCount, vllmStatus,
                   disconnected, cancelled>>

Streaming == {"respond", "idle", "waiting", "gotChunk", "exhausted"}

\* The caller goes away while the response is being produced.
Disconnect ==
    /\ pc \in Streaming
    /\ ~disconnected
    /\ disconnected' = TRUE
    /\ respEnd' = IF respEnd = "open" THEN "aborted" ELSE respEnd
    /\ UNCHANGED <<reqVars, pc, calls, getVars, genPc, createCalls, lastCreate,
                   received, streamState, chunk, body, started, respStatus,
                   respShape, respDetail, respModels, respCount, vllmStatus,
                   cancelled>>

\* The task listening for http.disconnect cancels the streaming task.
ObserveDisconnect ==
    /\ pc \in Streaming
    /\ disconnected
    /\ ~cancelled
    /\ cancelled' = TRUE
    /\ UNCHANGED <<reqVars, pc, calls, getVars, genPc, createCalls, lastCreate,
                   received, streamState, chunk, body, started, respVars,
                   disconnected>>

\* The cancellation reaches the streaming task where it awaits (not while
\* a next() is running in the thread): the task ends, the generator is
\* dropped and finalised, and with it the backend stream.
Cancel ==
    /\ pc \in Streaming \ {"waiting"}
    /\ cancelled
    /\ pc' = "done"
    /\ genPc' = IF genPc \in {"done", "failed"} THEN genPc ELSE "closed"
    /\ streamState' = IF streamState = "open" THEN "closed" ELSE streamState
    /\ UNCHANGED <<reqVars, calls, getVars, createCalls, lastCreate, received,
                   chunk, body, started, respVars, disconnected, cancelled>>

\* ------------------------------------------- /models, /models/list, /health

\* The handler sends its one GET (client.get) and awaits the outcome.
SendGet ==
    /\ pc = "recv"
    /\ route \in {"models", "models_list", "health"}
    /\ \E r \in (IF route = "health" THEN HealthOutcomes ELSE CatalogOutcomes) :
        getResult' = r
    /\ calls' = calls + 1
    /\ pc' = "awaited"
    /\ UNCHANGED <<reqVars, streamVars, respVars>>

\* except httpx.HTTPError as e: raise HTTPException(status_code=500, ...)
CatalogError(r) ==
    IF IsHTTPError(RaisedBy(r, CatalogRaisesForStatus))
    THEN Respond(500, "http_exception",
                 ErrorMessage(CatalogPrefix, r, CatalogRaisesForStatus), <<>>, 0, 0)
    ELSE ServerError

\* GET /models after the await: the body is returned as it is and checked
\* against ModelsResponse.
GetAvailableModels ==
    /\ pc = "awaited"
    /\ route = "models"
    /\ IF RaisedBy(getResult, CatalogRaisesForStatus) # ""
       THEN CatalogError(getResult)
       ELSE IF ~getResult.json.isJson \/ ~ValidModelsResponse(getResult.json)
       THEN ServerError
       ELSE Respond(200, "models", NoDetail, ModelNames(getResult.json.data), 0, 0)
    /\ UNCHANGED <<reqVars, calls, getVars, streamVars>>

\* GET /models/list after the await.
ListModelNames ==
    /\ pc = "awaited"
    /\ route = "models_list"
    /\ IF RaisedBy(getResult, CatalogRaisesForStatus) # ""
       THEN CatalogError(getResult)
       ELSE IF ~getResult.json.isJson \/ ~AllHaveId(DataOf(getResult.json))
       THEN ServerError
       ELSE Respond(200, "models_list", NoDetail,
                    ModelNames(DataOf(getResult.json)),
                    Len(ModelNames(DataOf(getResult.json))), 0)
    /\ UNCHANGED <<reqVars, calls, getVars, streamVars>>

\* GET /health after the await.
HealthCheck ==
    /\ pc = "awaited"
    /\ route = "health"
    /\ IF RaisedBy(getResult, HealthRaisesForStatus) = ""
       THEN Respond(200, "healthy", NoDetail, <<>>, 0, getResult.status)
       ELSE IF IsHTTPError(RaisedBy(getResult, HealthRaisesForStatus))
       THEN Respond(200, "unhealthy",
                    ErrorMessage("", getResult, HealthRaisesForStatus), <<>>, 0, 0)
       ELSE ServerError
    /\ UNCHANGED <<reqVars, calls, getVars, streamVars>>

\* GET /: a static acknowledgement.
Root ==
    /\ pc = "recv"
    /\ route = "root"
    /\ Respond(200, "root", NoDetail, <<>>, 0, 0)
    /\ UNCHANGED <<reqVars, calls, getVars, streamVars>>

\* ------------------------------------------------------------------- Spec

Next ==
    \/ TranscribeAudio
    \/ SendStart
    \/ CallNext
    \/ CreateAttempt
    \/ ReadEvent
    \/ StreamEnd
    \/ StreamFail
    \/ SendChunk
    \/ SendFinal
    \/ Disconnect
    \/ ObserveDisconnect
    \/ Cancel
    \/ SendGet
    \/ GetAvailableModels
    \/ ListModelNames
    \/ HealthCheck
    \/ Root

Spec == Init /\ [][Next]_vars

\* The thread running next() returns (the backend delivers, ends, fails or
\* the client's read times out), the event loop runs the tasks that are
\* ready, and a handler that was dispatched runs to its response.
Progress ==
    \/ TranscribeAudio
    \/ SendStart
    \/ CallNext
    \/ CreateAttempt
    \/ ReadEvent
    \/ StreamEnd
    \/ StreamFail
    \/ SendChunk
    \/ SendFinal
    \/ Cancel
    \/ SendGet
    \/ GetAvailableModels
    \/ ListModelNames
    \/ HealthCheck
    \/ Root

FairSpec == Spec /\ WF_vars(Progress) /\ WF_vars(ObserveDisconnect)

\* ----------------------------------------------------------------- claims

\* The text increment an event carries for the first completion choice,
\* as the specification words it: the content when there is one, else
\* nothing.
Increment(event) == IF event[1].has THEN event[1].text ELSE <<>>

\* The concatenation, in arrival order, of the increments of events.
RECURSIVE Concatenation(_)
Concatenation(events) ==
    IF events = <<>> THEN <<>>
    ELSE Increment(Head(events)) \o Concatenation(Tail(events))

IsPrefix(p, q) == Len(p) <= Len(q) /\ SubSeq(q, 1, Len(p)) = p

\* C1: when a /transcribe request with an audio upload ends with a
\* completed response, the backend stream has run to completion and the
\* body is exactly the concatenation, in arrival order, of the non-empty
\* increments of the first choice of every event received; empty or absent
\* increments and other choices contribute nothing.
C1_BodyIsConcatenation ==
    (route = "transcribe" /\ hasAudio /\ respEnd = "complete")
        => /\ streamState = "ended"
           /\ body = Concatenation(received)

\* C1 witness: three events, one of them without text, relayed to the end.
C1_Witness ==
    /\ route = "transcribe"
    /\ respEnd = "complete"
    /\ Len(received) = MaxEvents
    /\ \E i \in 1..Len(received) : Increment(received[i]) = <<>>
    /\ \E i \in 1..Len(received) : Len(received[i]) = 2
    /\ Len(body) >= 3

\* C2: a /transcribe request without the audio_file field is answered with
\* a client error (4xx), and no backend call is made for it at any point.
C2_MissingAudioRejected ==
    (route = "transcribe" /\ ~hasAudio)
        => /\ calls = 0
           /\ createCalls = 0
           /\ pc \in {"recv", "done"}
           /\ (pc = "done" => respStatus \in 400..499 /\ respEnd = "complete")

\* C2 witness: the request without audio has been answered.
C2_Witness == route = "transcribe" /\ ~hasAudio /\ pc = "done" /\ respStatus = 422

\* C3: /health never fails: whatever the outcome of the backend GET, the
\* answer is a 200 of one of the two shapes, healthy with the remote status
\* code or unhealthy with the failure's message, never an HTTP error.
C3_HealthNeverRaises ==
    (route = "health" /\ pc = "done")
        => /\ respStatus = 200
           /\ respEnd = "complete"
           /\ \/ respShape = "healthy" /\ vllmStatus \in Statuses
                    /\ respDetail = NoDetail
              \/ respShape = "unhealthy" /\ respDetail.exc \in TransportErrors
                    /\ vllmStatus = 0

\* C3 witness: the backend GET timed out and /health has answered.
C3_Witness ==
    route = "health" /\ pc = "done" /\ getResult.kind = "ReadTimeout"

\* C4 (as stated): every backend failure on /health, a non-2xx response
\* included, is reported as unhealthy; healthy means the backend answered
\* successfully.
C4_NonSuccessIsUnhealthy ==
    (route = "health" /\ pc = "done")
        => (respShape = "healthy"
              <=> (getResult.kind = "response" /\ getResult.status \in 200..299))

\* C4 (amended): /health reports unhealthy, with the failure's message,
\* exactly when the GET failed in transport (connection failure, timeout,
\* other transport failure); whenever the backend answered, whatever the
\* status, it reports healthy with vllm_status the status received.
C4_HealthyIffAnswered ==
    (route = "health" /\ pc = "done")
        => /\ (getResult.kind = "response"
                 => respShape = "healthy" /\ vllmStatus = getResult.status)
           /\ (getResult.kind # "response"
                 => respShape = "unhealthy" /\ respDetail.exc = getResult.kind)

\* C4 witness: the backend answered 503 and /health reports healthy.
C4_Witness ==
    /\ route = "health"
    /\ pc = "done"
    /\ getResult.kind = "response"
    /\ getResult.status = 503
    /\ respShape = "healthy"
    /\ vllmStatus = 503

\* C5: when the catalog GET of /models or /models/list fails with a network
\* error, a timeout or a non-2xx status, the answer is a 500 whose detail
\* carries the failure's message, and no model data.
C5_CatalogFailureIs500 ==
    (/\ route \in {"models", "models_list"}
     /\ pc = "done"
     /\ (getResult.kind # "response" \/ getResult.status \notin 200..299))
        => /\ respStatus = 500
           /\ respShape = "http_exception"
           /\ respDetail.prefix = CatalogPrefix
           /\ respDetail.exc = (IF getResult.kind = "response"
                                THEN "HTTPStatusError" ELSE getResult.kind)
           /\ respDetail.status = getResult.status
           /\ respModels = <<>>
           /\ respCount = 0

\* C5 witness: the catalog answered 404 with a well-formed body, and
\* /models/list has answered.
C5_Witness ==
    /\ route = "models_list"
    /\ pc = "done"
    /\ getResult.kind = "response"
    /\ getResult.status = 404
    /\ getResult.json.isJson
    /\ Len(getResult.json.data) = MaxModels
    /\ respStatus = 500

\* The data entries of the catalog the backend returned, none when the
\* catalog has no "data".
CatalogData == IF getResult.json.hasData THEN getResult.json.data ELSE <<>>

\* C6: in every successful /models/list answer, count is the length of
\* models and models is the sequence of the ids of the catalog's data
\* entries, in order; a catalog without data entries gives [] and 0.  The
\* data entries a successful /models returns for a catalog carry the same
\* ids.
C6_NamesAndCount ==
    /\ (route = "models_list" /\ pc = "done" /\ respStatus = 200)
        => /\ respCount = Len(respModels)
           /\ Len(respModels) = Len(CatalogData)
           /\ \A i \in 1..Len(CatalogData) : respModels[i] = CatalogData[i].id
    /\ (route = "models" /\ pc = "done" /\ respStatus = 200)
        => /\ Len(respModels) = Len(CatalogData)
           /\ \A i \in 1..Len(CatalogData) : respModels[i] = CatalogData[i].id

\* C6 witness: a catalog of two entries listed in order.
C6_Witness ==
    /\ route = "models_list"
    /\ pc = "done"
    /\ respStatus = 200
    /\ respModels = <<"m2", "m1">>
    /\ respCount = 2

\* The backend call has failed for good (its last attempt failed and is not
\* being retried) or the stream has failed.
BackendFailed ==
    \/ streamState = "failed"
    \/ lastCreate \notin {"none", "ok"} /\ genPc # "creating"

\* C10: a failure of the backend call or stream ends a /transcribe
\* request: nothing more happens, no error frame and no terminating chunk
\* is written, what was written is the concatenation of the increments
\* received before the failure, and the response is cut off, not completed.
C10_FailureCutsStream ==
    (route = "transcribe" /\ BackendFailed)
        => /\ pc = "done"
           /\ genPc = "failed"
           /\ ~ENABLED Next
           /\ respEnd = "aborted"
           /\ IsPrefix(body, Concatenation(received))
           /\ (~disconnected => body = Concatenation(received))

\* C10 witness: the stream failed after an increment was relayed.
C10_Witness ==
    /\ route = "transcribe"
    /\ genPc = "failed"
    /\ streamState = "failed"
    /\ ~disconnected
    /\ Len(received) = 2
    /\ body = <<"a">>

\* C7 (as stated): nothing of a /transcribe response, status and headers
\* included, is sent before the backend has produced the first text
\* increment.
C7_StartsAfterFirstIncrement ==
    (route = "transcribe" /\ started)
        => \E i \in 1..Len(received) : Increment(received[i]) # <<>>

\* C7 (amended): the status line and headers of a /transcribe response are
\* written before the backend is contacted; body bytes are written only
\* after the backend produced them; the response is completed only when the
\* backend has signalled the end of the stream, and it ends without being
\* completed only after a backend failure or the caller's disconnect.
C7_StartsBeforeBackendCall ==
    route = "transcribe"
        => /\ (createCalls > 0 => started \/ disconnected)
           /\ (calls > 0 => createCalls > 0)
           /\ (body # <<>> => started)
           /\ IsPrefix(body, Concatenation(received))
           /\ (respEnd = "complete" /\ hasAudio => streamState = "ended")
           /\ (respEnd = "aborted" => disconnected \/ genPc = "failed")
           /\ (started /\ pc # "done" /\ ~disconnected => respEnd = "open")

\* C7 witness: status and headers are written and the backend has not been
\* called yet.
C7_Witness ==
    /\ route = "transcribe"
    /\ started
    /\ respStatus = 200
    /\ respEnd = "open"
    /\ calls = 0
    /\ received = <<>>

\* C8 (as stated): once the caller's disconnect has been observed, the
\* relay takes no further event from the backend stream.
C8_NoEventAfterObserved ==
    [][cancelled => received' = received]_vars

\* C8 (amended): once the caller's disconnect has been observed, nothing
\* more is written, no further next() of the generator and no new backend
\* call is begun, and events are taken and attempts sent only by the next()
\* that was running in the worker thread at that moment; when that next()
\* has returned the relay stops and the backend stream is released.
C8_StopsAfterDisconnect ==
    /\ [][cancelled => body' = body /\ started' = started]_vars
    /\ [][cancelled /\ pc # "waiting"
            => pc' # "waiting" /\ received' = received /\ calls' = calls
               /\ createCalls' = createCalls]_vars
    /\ (cancelled ~> (pc = "done" /\ streamState # "open"
                        /\ genPc \in {"closed", "done", "failed"}))

\* C8 witness: the disconnect was observed mid-stream, the relay has
\* stopped and the open backend stream was released.
C8_Witness ==
    /\ cancelled
    /\ pc = "done"
    /\ genPc = "closed"
    /\ streamState = "closed"
    /\ body # <<>>
    /\ Len(received) < MaxEvents

GetRoutes == {"models", "models_list", "health"}

====
